---------------------------- MODULE Spec2Model ----------------------------
(***************************************************************************)
(* A model of the dpmaster wire codec (dpmaster-proto), its tokio frame    *)
(* adapter (dpmaster-codec) and the fuzz harnesses that drive the parsers. *)
(*                                                                         *)
(* Bytes are the integers 0..255 and a byte slice is a sequence of bytes.  *)
(* A nom parser is an operator from the input slice to a result record     *)
(*   Ok(rest, val)    the parser succeeded, rest is the unconsumed input   *)
(*   Error(at, kind)  nom::Err::Error(DeserializationError::Nom(at, kind)) *)
(*   Panic(why)       the call did not return: an unwrap() of an Err       *)
(* A u32 is kept as two 16 bit limbs <<hi, lo>>, value hi * 65536 + lo, so *)
(* that the checked arithmetic of u32::from_str_radix is modelled exactly. *)
(***************************************************************************)
EXTENDS Integers, Sequences, FiniteSets, TLC

VARIABLES
    pc,     \* position of the harness / caller
    msg,    \* the message value held by the caller (NoMsg when none)
    wire,   \* the bytes of the datagram under consideration
    res,    \* the last parser result (NoRes when none)
    out,    \* bytes written by a serializer after a parse
    net,    \* the datagrams still to be delivered by the transport
    buf,    \* the frame adapter's BytesMut buffer
    ret     \* the last return value of GameClientCodec::decode

vars == <<pc, msg, wire, res, out, net, buf, ret>>

----------------------------------------------------------------------------
(* Bounds of the model *)

MaxTokens == 5      \* tokens of a datagram taken from the wire
MaxNameLen == 2     \* bytes of a GameName / GameType / ProtocolName built by a caller
MaxServers == 2     \* servers of a GetServersResponseMessage built by a caller
MaxDatagrams == 3   \* datagrams delivered to the frame adapter
MaxInfoTokens == 7  \* tokens of an infoResponse datagram taken from the wire
MaxInserts == 4     \* calls of Info::insert on one Info
MaxCtorLen == 3     \* bytes handed to a constructor of a value type
MaxPrefixTokens == 3 \* tokens in front of the command of a datagram

----------------------------------------------------------------------------
(* Results *)

Ok(rest, val) == [tag |-> "Ok", rest |-> rest, val |-> val]
Error(at, kind) == [tag |-> "Err", rest |-> at, val |-> kind]
Panic(why) == [tag |-> "Panic", rest |-> <<>>, val |-> why]

CtorOk(v) == [ok |-> TRUE, v |-> v, e |-> [kind |-> "None"]]
CtorErr(e) == [ok |-> FALSE, v |-> <<>>, e |-> e]

None == <<>>
Some(x) == <<x>>

NoMsg == [kind |-> "none"]
NoRes == [tag |-> "None", rest |-> <<>>, val |-> <<>>]

----------------------------------------------------------------------------
(* Slices *)

Drop(s, n) == SubSeq(s, n + 1, Len(s))
Take(s, n) == SubSeq(s, 1, n)
StartsWith(s, t) == Len(t) <= Len(s) /\ Take(s, Len(t)) = t
IsSuffix(t, s) == Len(t) <= Len(s) /\ Drop(s, Len(s) - Len(t)) = t

RECURSIVE Concat(_)
Concat(ss) == IF ss = <<>> THEN <<>> ELSE Head(ss) \o Concat(Tail(ss))

SeqsUpTo(S, n) == UNION {[1..k -> S] : k \in 0..n}

----------------------------------------------------------------------------
(* Byte classes *)

SP == 32
LF == 10
NUL == 0
BACKSLASH == 92

is_space(chr) == chr = SP
is_digit(chr) == chr >= 48 /\ chr <= 57
is_newline(chr) == chr = LF

----------------------------------------------------------------------------
(* nom combinators as used by the deserializer *)

Byte == 0..255

(* A byte predicate is modelled as the set of bytes that satisfy it. *)
SpanLen(cond, s) ==
    CHOOSE n \in 0..Len(s) :
        /\ \A i \in 1..n : s[i] \in cond
        /\ (n = Len(s) \/ s[n + 1] \notin cond)

tag(t, input) ==
    IF StartsWith(input, t) THEN Ok(Drop(input, Len(t)), t)
    ELSE Error(input, "Tag")

take_while(cond, input) ==
    LET n == SpanLen(cond, input) IN Ok(Drop(input, n), Take(input, n))

take_while1(cond, input) ==
    LET n == SpanLen(cond, input)
    IN IF n = 0 THEN Error(input, "TakeWhile1")
       ELSE Ok(Drop(input, n), Take(input, n))

----------------------------------------------------------------------------
(* Message prefix *)

MessagePrefixBytes == <<255, 255, 255, 255>>

message_prefix(input) == tag(MessagePrefixBytes, input)

gen_message_prefix == MessagePrefixBytes

(* VerboseError: errors is a sequence of (input, kind) entries *)
VerboseError_from_error_kind(input, kind) ==
    <<[input |-> input, kind |-> <<"Nom", kind>>]>>

(* an append_dpmaster that discards its entry, as DeserializationError's does *)
VerboseError_append_dpmaster_discard(input, kind, other) == other

VerboseError_append_dpmaster(input, kind, other) ==
    Append(other, [input |-> input, kind |-> <<"Dpmaster", kind>>])

VerboseError_add_context(input, ctx, other) ==
    Append(other, [input |-> input, kind |-> <<"Context", ctx>>])

(* message_prefix::<VerboseError<_>>: context("message prefix",             *)
(* append(ErrorKind::MessagePrefix, tag(..))); both wrappers are handed the *)
(* input of the call                                                        *)
message_prefix_verbose(input) ==
    IF StartsWith(input, MessagePrefixBytes)
    THEN Ok(Drop(input, Len(MessagePrefixBytes)), MessagePrefixBytes)
    ELSE Error(input,
               VerboseError_add_context(input, "message prefix",
                   VerboseError_append_dpmaster(input, "MessagePrefix",
                       VerboseError_from_error_kind(input, "Tag"))))

----------------------------------------------------------------------------
(* Value types of the getservers message *)

(* a GameName::new searching for the space only *)
GameName_new_space(bytes) ==
    IF \E i \in 1..Len(bytes) : bytes[i] = SP
    THEN LET i == CHOOSE j \in 1..Len(bytes) :
                      /\ bytes[j] = SP
                      /\ \A k \in 1..(j - 1) : bytes[k] # SP
         IN CtorErr([kind |-> "InvalidGameName", byte |-> bytes[i], offset |-> i - 1])
    ELSE CtorOk(bytes)

GameName_new(bytes) ==
    IF \E i \in 1..Len(bytes) : bytes[i] = NUL \/ bytes[i] = SP
    THEN LET i == CHOOSE j \in 1..Len(bytes) :
                      /\ bytes[j] \in {NUL, SP}
                      /\ \A k \in 1..(j - 1) : bytes[k] \notin {NUL, SP}
         IN CtorErr([kind |-> "InvalidGameName", byte |-> bytes[i], offset |-> i - 1])
    ELSE CtorOk(bytes)

GameType_new(bytes) == CtorOk(bytes)

FilterOptions_new(gametype, empty, full) ==
    [gametype |-> gametype, empty |-> empty, full |-> full]

GetServersMessage_new(name, number, filter) ==
    [kind |-> "getservers", game_name |-> name, protocol_number |-> number,
     filter_options |-> filter]

----------------------------------------------------------------------------
(* u32 <-> ASCII decimal *)

RECURSIVE from_str_radix_acc(_, _, _)
from_str_radix_acc(digits, i, acc) ==
    IF i > Len(digits) THEN CtorOk(acc)
    ELSE LET lo10 == acc[2] * 10 + (digits[i] - 48)
             hi10 == acc[1] * 10 + (lo10 \div 65536)
         IN IF hi10 > 65535 THEN CtorErr([kind |-> "PosOverflow"])
            ELSE from_str_radix_acc(digits, i + 1, <<hi10, lo10 % 65536>>)

from_str_radix(digits) ==
    IF digits = <<>> THEN CtorErr([kind |-> "Empty"])
    ELSE from_str_radix_acc(digits, 1, <<0, 0>>)

RECURSIVE to_string_acc(_, _)
to_string_acc(n, acc) ==
    LET mid == (n[1] % 10) * 65536 + n[2]
        q == <<n[1] \div 10, mid \div 10>>
        d == <<48 + (mid % 10)>>
    IN IF q = <<0, 0>> THEN d \o acc ELSE to_string_acc(q, d \o acc)

to_string(n) == to_string_acc(n, <<>>)

----------------------------------------------------------------------------
(* getservers: deserializer *)

GetserversCommand == <<103, 101, 116, 115, 101, 114, 118, 101, 114, 115>>
GametypeKey == <<103, 97, 109, 101, 116, 121, 112, 101, 61>>
EmptyToken == <<101, 109, 112, 116, 121>>
FullToken == <<102, 117, 108, 108>>

getservers_command(input) == tag(GetserversCommand, input)

(* game_name ending the name at the next space only *)
game_name_to_space(input) ==
    LET r == take_while1({chr \in Byte : ~is_space(chr)}, input)
    IN IF r.tag = "Err" THEN Ok(input, None)
       ELSE LET g == GameName_new(r.val)
            IN IF g.ok THEN Ok(r.rest, Some(g.v)) ELSE Panic("GameName::new")

game_name(input) ==
    LET r == take_while1({chr \in Byte : ~(is_digit(chr) \/ is_space(chr))}, input)
    IN IF r.tag = "Err" THEN Ok(input, None)
       ELSE LET g == GameName_new(r.val)
            IN IF g.ok THEN Ok(r.rest, Some(g.v)) ELSE Panic("GameName::new")

protocol_number(input) ==
    LET r == take_while({chr \in Byte : is_digit(chr)}, input)
        n == from_str_radix(r.val)
    IN IF n.ok THEN Ok(r.rest, n.v) ELSE Panic("u32::from_str_radix")

filteroption_gametype(input) ==
    LET k == tag(GametypeKey, input)
    IN IF k.tag # "Ok" THEN k
       ELSE LET v == take_while1({chr \in Byte : chr # SP}, k.rest)
            IN IF v.tag # "Ok" THEN v
               ELSE LET g == GameType_new(v.val)
                    IN IF g.ok THEN Ok(v.rest, [opt |-> "GameType", g |-> g.v])
                       ELSE Panic("GameType::new")

filteroption_empty(input) ==
    LET r == tag(EmptyToken, input)
    IN IF r.tag # "Ok" THEN r ELSE Ok(r.rest, [opt |-> "Empty", g |-> <<>>])

filteroption_full(input) ==
    LET r == tag(FullToken, input)
    IN IF r.tag # "Ok" THEN r ELSE Ok(r.rest, [opt |-> "Full", g |-> <<>>])

filteroption(input) ==
    LET a == filteroption_gametype(input)
    IN IF a.tag # "Err" THEN a
       ELSE LET b == filteroption_empty(input)
            IN IF b.tag # "Err" THEN b ELSE filteroption_full(input)

(* separated_list0(tag(b" "), filteroption), after its first element *)
RECURSIVE separated_list0_more(_, _)
separated_list0_more(i, acc) ==
    LET s == tag(<<SP>>, i)
    IN IF s.tag # "Ok" THEN Ok(i, acc)
       ELSE LET f == filteroption(s.rest)
            IN CASE f.tag = "Err" -> Ok(i, acc)
                 [] f.tag = "Panic" -> f
                 [] OTHER -> separated_list0_more(f.rest, Append(acc, f.val))

separated_list0(input) ==
    LET f == filteroption(input)
    IN CASE f.tag = "Err" -> Ok(input, <<>>)
         [] f.tag = "Panic" -> f
         [] OTHER -> separated_list0_more(f.rest, <<f.val>>)

(* the fold keeping the first gametype option instead of the last *)
RECURSIVE fold_filteroptions_first(_, _, _)
fold_filteroptions_first(list, i, acc) ==
    IF i > Len(list) THEN acc
    ELSE fold_filteroptions_first(list, i + 1,
            CASE list[i].opt = "GameType" ->
                    IF acc.gametype = None
                    THEN [acc EXCEPT !.gametype = Some(list[i].g)] ELSE acc
              [] list[i].opt = "Empty" -> [acc EXCEPT !.empty = TRUE]
              [] OTHER -> [acc EXCEPT !.full = TRUE])

RECURSIVE fold_filteroptions(_, _, _)
fold_filteroptions(list, i, acc) ==
    IF i > Len(list) THEN acc
    ELSE fold_filteroptions(list, i + 1,
            CASE list[i].opt = "GameType" -> [acc EXCEPT !.gametype = Some(list[i].g)]
              [] list[i].opt = "Empty" -> [acc EXCEPT !.empty = TRUE]
              [] OTHER -> [acc EXCEPT !.full = TRUE])

filteroptions(input) ==
    LET l == separated_list0(input)
    IN IF l.tag # "Ok" THEN l
       ELSE Ok(l.rest, fold_filteroptions(l.val, 1, FilterOptions_new(None, FALSE, FALSE)))

getservers_payload(input) ==
    LET s1 == take_while1({chr \in Byte : is_space(chr)}, input)
    IN IF s1.tag # "Ok" THEN s1 ELSE
       LET g == game_name(s1.rest)
       IN IF g.tag # "Ok" THEN g ELSE
          LET s2 == take_while({chr \in Byte : is_space(chr)}, g.rest)
              p == protocol_number(s2.rest)
          IN IF p.tag # "Ok" THEN p ELSE
             LET s3 == take_while({chr \in Byte : is_space(chr)}, p.rest)
                 f == filteroptions(s3.rest)
             IN IF f.tag # "Ok" THEN f
                ELSE Ok(f.rest, GetServersMessage_new(g.val, p.val, f.val))

getservers(input) ==
    LET c == getservers_command(input)
    IN IF c.tag # "Ok" THEN c ELSE getservers_payload(c.rest)

getservers_message(input) ==
    LET p == message_prefix(input)
    IN IF p.tag # "Ok" THEN p ELSE getservers(p.rest)

----------------------------------------------------------------------------
(* getservers: serializer *)

gen_protocol_number(number) == to_string(number)

(* gen_filter_options writing " full" before " empty" *)
gen_filter_options_full_first(f) ==
    (IF f.gametype # None THEN <<SP>> \o GametypeKey \o f.gametype[1] ELSE <<>>)
    \o (IF f.full THEN <<SP>> \o FullToken ELSE <<>>)
    \o (IF f.empty THEN <<SP>> \o EmptyToken ELSE <<>>)

gen_filter_options(f) ==
    (IF f.gametype # None THEN <<SP>> \o GametypeKey \o f.gametype[1] ELSE <<>>)
    \o (IF f.empty THEN <<SP>> \o EmptyToken ELSE <<>>)
    \o (IF f.full THEN <<SP>> \o FullToken ELSE <<>>)

(* gen_getservers_message without the separator after the game name *)
gen_getservers_message_nosep(m) ==
    gen_message_prefix
    \o GetserversCommand \o <<SP>>
    \o (IF m.game_name # None THEN m.game_name[1] ELSE <<>>)
    \o gen_protocol_number(m.protocol_number)
    \o gen_filter_options(m.filter_options)

gen_getservers_message(m) ==
    gen_message_prefix
    \o GetserversCommand \o <<SP>>
    \o (IF m.game_name # None THEN m.game_name[1] \o <<SP>> ELSE <<>>)
    \o gen_protocol_number(m.protocol_number)
    \o gen_filter_options(m.filter_options)

----------------------------------------------------------------------------
(* heartbeat *)

HeartbeatCommand == <<104, 101, 97, 114, 116, 98, 101, 97, 116>>

(* ProtocolName::new with the validation its TODO asks for: printable ASCII *)
ProtocolName_new_validating(bytes) ==
    IF \E i \in 1..Len(bytes) : bytes[i] < 33 \/ bytes[i] > 126
    THEN CtorErr([kind |-> "InvalidByte"])
    ELSE CtorOk(bytes)

ProtocolName_new(bytes) == CtorOk(bytes)

HeartbeatMessage_new(name) == [kind |-> "heartbeat", protocol_name |-> name]

(* protocol_name ending the name at the next space or newline *)
protocol_name_word(input) ==
    LET r == take_while1({chr \in Byte : ~(is_newline(chr) \/ is_space(chr))},
                         input)
    IN IF r.tag # "Ok" THEN r
       ELSE LET n == ProtocolName_new(r.val)
            IN IF n.ok THEN Ok(r.rest, n.v) ELSE Panic("ProtocolName::new")

protocol_name(input) ==
    LET r == take_while1({chr \in Byte : ~is_newline(chr)}, input)
    IN IF r.tag # "Ok" THEN r
       ELSE LET n == ProtocolName_new(r.val)
            IN IF n.ok THEN Ok(r.rest, n.v) ELSE Panic("ProtocolName::new")

heartbeat_command(input) == tag(HeartbeatCommand, input)

heartbeat_payload(input) ==
    LET s == take_while1({chr \in Byte : is_space(chr)}, input)
    IN IF s.tag # "Ok" THEN s ELSE
       LET n == protocol_name(s.rest)
       IN IF n.tag # "Ok" THEN n
          ELSE LET l == take_while({chr \in Byte : is_newline(chr)}, n.rest)
               IN Ok(l.rest, HeartbeatMessage_new(n.val))

heartbeat(input) ==
    LET c == heartbeat_command(input)
    IN IF c.tag # "Ok" THEN c ELSE heartbeat_payload(c.rest)

heartbeat_message(input) ==
    LET p == message_prefix(input)
    IN IF p.tag # "Ok" THEN p ELSE heartbeat(p.rest)

gen_protocol_name(name) == name

gen_heartbeat_message(m) ==
    gen_message_prefix \o HeartbeatCommand \o <<SP>>
    \o gen_protocol_name(m.protocol_name) \o <<LF>>

----------------------------------------------------------------------------
(* getinfo *)

GetinfoCommand == <<103, 101, 116, 105, 110, 102, 111>>

is_ascii_printable(chr) == chr >= 33 /\ chr <= 126

ChallengeForbidden == {92, 47, 59, 34, 37}

(* a Challenge::new reporting the last invalid byte *)
Challenge_new_last(bytes) ==
    LET bad(j) == ~is_ascii_printable(bytes[j]) \/ bytes[j] \in ChallengeForbidden
    IN IF bytes = <<>> THEN CtorErr([kind |-> "Empty"])
       ELSE IF \E j \in 1..Len(bytes) : bad(j)
       THEN LET i == CHOOSE j \in 1..Len(bytes) :
                         bad(j) /\ \A k \in (j + 1)..Len(bytes) : ~bad(k)
            IN CtorErr([kind |-> "InvalidByte", offset |-> i - 1, bytes |-> bytes])
       ELSE CtorOk(bytes)

Challenge_new(bytes) ==
    LET bad(j) == ~is_ascii_printable(bytes[j]) \/ bytes[j] \in ChallengeForbidden
    IN IF bytes = <<>> THEN CtorErr([kind |-> "Empty"])
       ELSE IF \E j \in 1..Len(bytes) : bad(j)
       THEN LET i == CHOOSE j \in 1..Len(bytes) :
                         bad(j) /\ \A k \in 1..(j - 1) : ~bad(k)
            IN CtorErr([kind |-> "InvalidByte", offset |-> i - 1, bytes |-> bytes])
       ELSE CtorOk(bytes)

GetInfoMessage_new(c) == [kind |-> "getinfo", challenge |-> c]

getinfo_command(input) == tag(GetinfoCommand, input)

challenge(input) ==
    LET c == Challenge_new(input)
    IN IF c.ok THEN Ok(<<>>, c.v) ELSE Panic("Challenge::new")

getinfo_payload(input) ==
    LET s == take_while1({chr \in Byte : is_space(chr)}, input)
    IN IF s.tag # "Ok" THEN s ELSE
       LET c == challenge(s.rest)
       IN IF c.tag # "Ok" THEN c ELSE Ok(c.rest, GetInfoMessage_new(c.val))

getinfo(input) ==
    LET c == getinfo_command(input)
    IN IF c.tag # "Ok" THEN c ELSE getinfo_payload(c.rest)

getinfo_message(input) ==
    LET p == message_prefix(input)
    IN IF p.tag # "Ok" THEN p ELSE getinfo(p.rest)

----------------------------------------------------------------------------
(* infoResponse *)

InforesponseCommand == <<105, 110, 102, 111, 82, 101, 115, 112, 111, 110, 115, 101>>

InfoKey_new(bytes) == CtorOk(bytes)
InfoValue_new(bytes) == CtorOk(bytes)

Info_new == <<>>

(* an insert that moves an existing key to the end *)
Info_insert_move(map, key, value) ==
    Append(SelectSeq(map, LAMBDA e : e[1] # key), <<key, value>>)

(* IndexMap::insert: an existing key keeps its position and gets the value *)
Info_insert(map, key, value) ==
    IF \E i \in 1..Len(map) : map[i][1] = key
    THEN [i \in 1..Len(map) |->
            IF map[i][1] = key THEN <<key, value>> ELSE map[i]]
    ELSE Append(map, <<key, value>>)

InfoResponseMessage_new(map) == [kind |-> "infoResponse", info |-> map]

inforesponse_command(input) == tag(InforesponseCommand, input)

info_key(input) ==
    LET new(r) == IF InfoKey_new(r.val).ok THEN Ok(r.rest, InfoKey_new(r.val).v)
                  ELSE Panic("InfoKey::new")
        map(r) == IF r.tag # "Ok" THEN r ELSE new(r)
    IN map(take_while1({chr \in Byte : chr # BACKSLASH}, input))

info_value(input) ==
    LET new(r) == IF InfoValue_new(r.val).ok THEN Ok(r.rest, InfoValue_new(r.val).v)
                  ELSE Panic("InfoValue::new")
        map(r) == IF r.tag # "Ok" THEN r ELSE new(r)
    IN map(take_while1({chr \in Byte : chr # BACKSLASH}, input))

(* tuple((preceded(tag("\\"), info_key), preceded(tag("\\"), info_value))) *)
info_kv(input) ==
    LET after_value(k, v) ==
            IF v.tag # "Ok" THEN v ELSE Ok(v.rest, <<k.val, v.val>>)
        after_tag2(k, b) ==
            IF b.tag # "Ok" THEN b ELSE after_value(k, info_value(b.rest))
        after_key(k) ==
            IF k.tag # "Ok" THEN k ELSE after_tag2(k, tag(<<BACKSLASH>>, k.rest))
        after_tag1(a) ==
            IF a.tag # "Ok" THEN a ELSE after_key(info_key(a.rest))
    IN after_tag1(tag(<<BACKSLASH>>, input))

(* many1(info_kv), after its first element *)
RECURSIVE many1_more(_, _)
many1_more(i, acc) ==
    LET next(f) ==
            CASE f.tag = "Err" -> Ok(i, acc)
              [] f.tag = "Panic" -> f
              [] OTHER -> many1_more(f.rest, Append(acc, f.val))
    IN next(info_kv(i))

many1(input) ==
    LET first(f) == IF f.tag # "Ok" THEN f ELSE many1_more(f.rest, <<f.val>>)
    IN first(info_kv(input))

(* the fold of info inserting the pairs last to first *)
RECURSIVE fold_info_rev(_, _, _)
fold_info_rev(kv, i, acc) ==
    IF i > Len(kv) THEN acc
    ELSE Info_insert(fold_info_rev(kv, i + 1, acc), kv[i][1], kv[i][2])

RECURSIVE fold_info(_, _, _)
fold_info(kv, i, acc) ==
    IF i > Len(kv) THEN acc
    ELSE fold_info(kv, i + 1, Info_insert(acc, kv[i][1], kv[i][2]))

info(input) ==
    LET map(l) == IF l.tag # "Ok" THEN l
                  ELSE Ok(l.rest, fold_info(l.val, 1, Info_new))
    IN map(many1(input))

inforesponse_payload(input) ==
    LET map(i) == IF i.tag # "Ok" THEN i
                  ELSE Ok(i.rest, InfoResponseMessage_new(i.val))
        after_newline(n) == IF n.tag # "Ok" THEN n ELSE map(info(n.rest))
    IN after_newline(tag(<<LF>>, input))

inforesponse(input) ==
    LET after_command(c) ==
            IF c.tag # "Ok" THEN c ELSE inforesponse_payload(c.rest)
    IN after_command(inforesponse_command(input))

inforesponse_message(input) ==
    LET p == message_prefix(input)
    IN IF p.tag # "Ok" THEN p ELSE inforesponse(p.rest)

----------------------------------------------------------------------------
(* getserversResponse *)

GetserversresponseCommand ==
    <<103, 101, 116, 115, 101, 114, 118, 101, 114, 115, 82, 101, 115, 112, 111, 110, 115, 101>>

EotSentinel == <<92, 69, 79, 84, 0, 0, 0>>

SocketAddrV4_new(ip, port) == [ip |-> ip, port |-> port]

GetServersResponseMessage_new(servers, e) ==
    [kind |-> "getserversResponse", servers |-> servers, eot |-> e]

(* socketaddr4 reading the port with the low byte first *)
socketaddr4_le(input) ==
    IF Len(input) < 4 THEN Error(<<>>, "Eof")
    ELSE IF Len(input) < 6 THEN Error(Drop(input, 4), "Eof")
    ELSE Ok(Drop(input, 6),
            SocketAddrV4_new(Take(input, 4), input[6] * 256 + input[5]))

(* tuple((be_u8, be_u8, be_u8, be_u8, be_u16)): Eof where the bytes run out *)
socketaddr4(input) ==
    IF Len(input) < 4 THEN Error(<<>>, "Eof")
    ELSE IF Len(input) < 6 THEN Error(Drop(input, 4), "Eof")
    ELSE Ok(Drop(input, 6),
            SocketAddrV4_new(Take(input, 4), input[5] * 256 + input[6]))

socketaddr4_separator(input) == tag(<<BACKSLASH>>, input)

(* eot matching the sentinel at the front of the input *)
eot_prefix(input) ==
    CASE StartsWith(input, EotSentinel) -> Ok(Drop(input, 7), TRUE)
      [] input = <<>> -> Ok(input, FALSE)
      [] OTHER -> Error(input, "Tag")

eot(input) ==
    CASE input = EotSentinel -> Ok(Drop(input, 7), TRUE)
      [] input = <<>> -> Ok(input, FALSE)
      [] OTHER -> Error(input, "Tag")

(* many_till(preceded(socketaddr4_separator, socketaddr4), eot) *)
RECURSIVE many_till(_, _)
many_till(i, acc) ==
    LET g == eot(i)
    IN IF g.tag = "Ok" THEN Ok(g.rest, <<acc, g.val>>)
       ELSE IF g.tag = "Panic" THEN g
       ELSE LET s == socketaddr4_separator(i)
            IN IF s.tag # "Ok" THEN s
               ELSE LET a == socketaddr4(s.rest)
                    IN IF a.tag # "Ok" THEN a
                       ELSE many_till(a.rest, Append(acc, a.val))

getserversresponse_payload(input) ==
    LET r == many_till(input, <<>>)
    IN IF r.tag # "Ok" THEN r
       ELSE Ok(r.rest, GetServersResponseMessage_new(r.val[1], r.val[2]))

getserversresponse_command(input) == tag(GetserversresponseCommand, input)

getserversresponse(input) ==
    LET c == getserversresponse_command(input)
    IN IF c.tag # "Ok" THEN c ELSE getserversresponse_payload(c.rest)

getserversresponse_message(input) ==
    LET p == message_prefix(input)
    IN IF p.tag # "Ok" THEN p ELSE getserversresponse(p.rest)

(* gen_socketaddrv4 writing the port in little-endian byte order *)
gen_socketaddrv4_le(addr) ==
    <<BACKSLASH>> \o addr.ip \o <<addr.port % 256, addr.port \div 256>>

gen_socketaddrv4(addr) ==
    <<BACKSLASH>> \o addr.ip \o <<addr.port \div 256, addr.port % 256>>

RECURSIVE many_ref(_)
many_ref(servers) ==
    IF servers = <<>> THEN <<>>
    ELSE gen_socketaddrv4(Head(servers)) \o many_ref(Tail(servers))

gen_getserversresponse_message(m) ==
    gen_message_prefix \o GetserversresponseCommand
    \o many_ref(m.servers)
    \o (IF m.eot THEN EotSentinel ELSE <<>>)

----------------------------------------------------------------------------
(* dpmaster-codec: the frame adapter.  decode returns Result<Option<Item>>  *)
(* and may change the buffer it is given; both are returned here.           *)

IoOk(item) == [tag |-> "Ok", item |-> item, kind |-> "None"]
IoError(kind) == [tag |-> "Err", item |-> None, kind |-> kind]
IoPanic == [tag |-> "Panic", item |-> None, kind |-> "None"]
NoRet == [tag |-> "None", item |-> None, kind |-> "None"]

(* decode with an Ok arm that keeps the buffer *)
GameClientCodec_decode_keep(src) ==
    IF src = <<>> THEN [ret |-> IoOk(None), src |-> src]
    ELSE LET m == getserversresponse_message(src)
         IN CASE m.tag = "Err" -> [ret |-> IoError("Other"), src |-> src]
              [] m.tag = "Panic" -> [ret |-> IoPanic, src |-> src]
              [] OTHER -> [ret |-> IoOk(Some(m.val)), src |-> src]

(* decode with an Err arm that reports "no frame yet" *)
GameClientCodec_decode_silent(src) ==
    IF src = <<>> THEN [ret |-> IoOk(None), src |-> src]
    ELSE LET m == getserversresponse_message(src)
         IN CASE m.tag = "Err" -> [ret |-> IoOk(None), src |-> src]
              [] m.tag = "Panic" -> [ret |-> IoPanic, src |-> src]
              [] OTHER -> [ret |-> IoOk(Some(m.val)), src |-> <<>>]

GameClientCodec_decode(src) ==
    IF src = <<>> THEN [ret |-> IoOk(None), src |-> src]
    ELSE LET m == getserversresponse_message(src)
         IN CASE m.tag = "Err" -> [ret |-> IoError("Other"), src |-> src]
              [] m.tag = "Panic" -> [ret |-> IoPanic, src |-> src]
              [] OTHER -> [ret |-> IoOk(Some(m.val)), src |-> <<>>]

(* encode returns Result<(), io::Error> and the destination buffer.  The    *)
(* writer of a BytesMut appends and grows the buffer, so gen never fails.   *)

(* encode that replaces the contents of the destination buffer *)
GameClientCodec_encode_overwrite(item, dst) ==
    [ret |-> IoOk(<<>>), dst |-> gen_getservers_message(item)]

GameClientCodec_encode(item, dst) ==
    [ret |-> IoOk(<<>>), dst |-> dst \o gen_getservers_message(item)]

----------------------------------------------------------------------------
(* The values a caller can build, and the datagrams that can arrive *)

NameBytes == {113, 55, SP, NUL}

ProtocolNumbers == {<<0, 0>>, <<0, 3>>, <<0, 67>>, <<65535, 65535>>}

GameNames == {n \in SeqsUpTo(NameBytes, MaxNameLen) : GameName_new(n).ok}

GameTypes == {g \in SeqsUpTo(NameBytes, MaxNameLen) : GameType_new(g).ok}

GetServersMessages ==
    {GetServersMessage_new(n, p, FilterOptions_new(g, e, f)) :
        n \in {None} \cup {Some(x) : x \in GameNames},
        p \in ProtocolNumbers,
        g \in {None} \cup {Some(x) : x \in GameTypes},
        e \in BOOLEAN, f \in BOOLEAN}

GetserversTokens ==
    {<<SP>>, <<113>>, <<55>>, <<48>>, GametypeKey, EmptyToken, FullToken}

GetserversDatagrams ==
    {MessagePrefixBytes \o GetserversCommand \o Concat(ts) :
        ts \in SeqsUpTo(GetserversTokens, MaxTokens)}

ProtocolNameBytes == {68, SP, LF}

ProtocolNames ==
    {n \in SeqsUpTo(ProtocolNameBytes, MaxNameLen) : ProtocolName_new(n).ok}

HeartbeatMessages == {HeartbeatMessage_new(n) : n \in ProtocolNames}

HeartbeatTokens == {HeartbeatCommand, <<SP>>, <<LF>>, <<68>>}

HeartbeatDatagrams ==
    {MessagePrefixBytes \o Concat(ts) : ts \in SeqsUpTo(HeartbeatTokens, MaxTokens)}

Addresses ==
    {SocketAddrV4_new(<<1, 2, 3, 4>>, 2048),
     SocketAddrV4_new(<<192, 0, 2, 1>>, 27960),
     SocketAddrV4_new(<<69, 79, 84, 0>>, 0)}

GetServersResponseMessages ==
    {GetServersResponseMessage_new(l, e) :
        l \in SeqsUpTo(Addresses, MaxServers), e \in BOOLEAN}

ResponseTokens ==
    {<<BACKSLASH>>, <<1, 2, 3, 4, 8, 0>>, <<69, 79, 84, 0, 0, 0>>, <<120>>}

GetserversresponseDatagrams ==
    {MessagePrefixBytes \o GetserversresponseCommand \o Concat(ts) :
        ts \in SeqsUpTo(ResponseTokens, MaxTokens)}

Idle ==
    /\ res = NoRes
    /\ out = <<>>
    /\ net = <<>>
    /\ buf = <<>>
    /\ ret = NoRet

----------------------------------------------------------------------------
(* getservers: build -> serialize -> deserialize            (pc "roundtrip") *)
(*             receive -> deserialize -> serialize again    (pc "regen")     *)

InitGetServers ==
    /\ \/ /\ pc = "built"
          /\ msg \in GetServersMessages
          /\ wire = <<>>
       \/ /\ pc = "recv"
          /\ msg = NoMsg
          /\ wire \in GetserversDatagrams
    /\ Idle

SerializeGetServers ==
    /\ pc = "built"
    /\ wire' = gen_getservers_message(msg)
    /\ pc' = "sent"
    /\ UNCHANGED <<msg, res, out, net, buf, ret>>

DeserializeGetServers ==
    /\ pc \in {"sent", "recv"}
    /\ res' = getservers_message(wire)
    /\ pc' = IF pc = "sent" THEN "roundtrip" ELSE "parsed"
    /\ UNCHANGED <<msg, wire, out, net, buf, ret>>

ReserializeGetServers ==
    /\ pc = "parsed"
    /\ res.tag = "Ok"
    /\ out' = gen_getservers_message(res.val)
    /\ pc' = "regen"
    /\ UNCHANGED <<msg, wire, res, net, buf, ret>>

NextGetServers ==
    \/ SerializeGetServers
    \/ DeserializeGetServers
    \/ ReserializeGetServers

SpecGetServers == InitGetServers /\ [][NextGetServers]_vars

----------------------------------------------------------------------------
(* heartbeat: the same two paths *)

InitHeartbeat ==
    /\ \/ /\ pc = "built"
          /\ msg \in HeartbeatMessages
          /\ wire = <<>>
       \/ /\ pc = "recv"
          /\ msg = NoMsg
          /\ wire \in HeartbeatDatagrams
    /\ Idle

SerializeHeartbeat ==
    /\ pc = "built"
    /\ wire' = gen_heartbeat_message(msg)
    /\ pc' = "sent"
    /\ UNCHANGED <<msg, res, out, net, buf, ret>>

DeserializeHeartbeat ==
    /\ pc \in {"sent", "recv"}
    /\ res' = heartbeat_message(wire)
    /\ pc' = IF pc = "sent" THEN "roundtrip" ELSE "parsed"
    /\ UNCHANGED <<msg, wire, out, net, buf, ret>>

ReserializeHeartbeat ==
    /\ pc = "parsed"
    /\ res.tag = "Ok"
    /\ out' = gen_heartbeat_message(res.val)
    /\ pc' = "regen"
    /\ UNCHANGED <<msg, wire, res, net, buf, ret>>

NextHeartbeat ==
    \/ SerializeHeartbeat
    \/ DeserializeHeartbeat
    \/ ReserializeHeartbeat

SpecHeartbeat == InitHeartbeat /\ [][NextHeartbeat]_vars

----------------------------------------------------------------------------
(* getserversResponse: the same two paths *)

InitGetServersResponse ==
    /\ \/ /\ pc = "built"
          /\ msg \in GetServersResponseMessages
          /\ wire = <<>>
       \/ /\ pc = "recv"
          /\ msg = NoMsg
          /\ wire \in GetserversresponseDatagrams
    /\ Idle

SerializeGetServersResponse ==
    /\ pc = "built"
    /\ wire' = gen_getserversresponse_message(msg)
    /\ pc' = "sent"
    /\ UNCHANGED <<msg, res, out, net, buf, ret>>

DeserializeGetServersResponse ==
    /\ pc \in {"sent", "recv"}
    /\ res' = getserversresponse_message(wire)
    /\ pc' = IF pc = "sent" THEN "roundtrip" ELSE "parsed"
    /\ UNCHANGED <<msg, wire, out, net, buf, ret>>

ReserializeGetServersResponse ==
    /\ pc = "parsed"
    /\ res.tag = "Ok"
    /\ out' = gen_getserversresponse_message(res.val)
    /\ pc' = "regen"
    /\ UNCHANGED <<msg, wire, res, net, buf, ret>>

NextGetServersResponse ==
    \/ SerializeGetServersResponse
    \/ DeserializeGetServersResponse
    \/ ReserializeGetServersResponse

SpecGetServersResponse == InitGetServersResponse /\ [][NextGetServersResponse]_vars

----------------------------------------------------------------------------
(* The parsers called directly on arbitrary bytes: the fuzz targets, the    *)
(* kani harness of getinfo, and a direct call of getservers.  Each harness  *)
(* builds its inputs from its own dictionary of tokens.                     *)

OverflowDigits == <<52, 50, 57, 52, 57, 54, 55, 50, 57, 54>>
MaxU32Digits == <<52, 50, 57, 52, 57, 54, 55, 50, 57, 53>>

Dictionary(target) ==
    CASE target = "heartbeat" ->
            {HeartbeatCommand, <<SP>>, <<LF>>, <<68>>}
      [] target = "getinfo" ->
            {GetinfoCommand, <<SP>>, <<65>>, <<59>>, <<255>>}
      [] target = "inforesponse" ->
            {InforesponseCommand, <<LF>>, <<BACKSLASH>>, <<107>>,
             <<BACKSLASH, 107, BACKSLASH, 118>>}
      [] target = "getserversresponse" ->
            {MessagePrefixBytes, GetserversresponseCommand, EotSentinel,
             <<BACKSLASH, 1, 2, 3, 4, 8, 0>>, <<BACKSLASH>>}
      [] OTHER ->
            {GetserversCommand, <<SP>>, <<78>>, <<NUL>>, <<51>>,
             OverflowDigits, MaxU32Digits}

Targets == {"heartbeat", "getinfo", "inforesponse", "getserversresponse", "getservers"}

Inputs(target) == {Concat(ts) : ts \in SeqsUpTo(Dictionary(target), MaxTokens)}

InitFuzz ==
    /\ \E t \in Targets : pc = t /\ wire \in Inputs(t)
    /\ msg = NoMsg
    /\ Idle

FuzzHeartbeat ==
    /\ pc = "heartbeat"
    /\ res' = heartbeat(wire)
    /\ pc' = "heartbeat_done"
    /\ UNCHANGED <<msg, wire, out, net, buf, ret>>

FuzzGetinfo ==
    /\ pc = "getinfo"
    /\ res' = getinfo(wire)
    /\ pc' = "getinfo_done"
    /\ UNCHANGED <<msg, wire, out, net, buf, ret>>

FuzzInfoResponse ==
    /\ pc = "inforesponse"
    /\ res' = inforesponse(wire)
    /\ pc' = "inforesponse_done"
    /\ UNCHANGED <<msg, wire, out, net, buf, ret>>

FuzzGetserversResponse ==
    /\ pc = "getserversresponse"
    /\ res' = getserversresponse_message(wire)
    /\ pc' = "getserversresponse_done"
    /\ UNCHANGED <<msg, wire, out, net, buf, ret>>

CallGetservers ==
    /\ pc = "getservers"
    /\ res' = getservers(wire)
    /\ pc' = "getservers_done"
    /\ UNCHANGED <<msg, wire, out, net, buf, ret>>

NextFuzz ==
    \/ FuzzHeartbeat
    \/ FuzzGetinfo
    \/ FuzzInfoResponse
    \/ FuzzGetserversResponse
    \/ CallGetservers

SpecFuzz == InitFuzz /\ [][NextFuzz]_vars

----------------------------------------------------------------------------
(* The frame adapter under a datagram transport: each datagram delivered is *)
(* appended to the adapter's buffer and followed by one decode call.        *)

ResponseHeader == MessagePrefixBytes \o GetserversresponseCommand

CodecDatagrams ==
    {ResponseHeader,
     ResponseHeader \o <<BACKSLASH, 1, 2, 3, 4, 8, 0>>,
     ResponseHeader \o <<BACKSLASH, 1, 2, 3, 4, 8, 0>> \o EotSentinel,
     ResponseHeader \o <<BACKSLASH, 1, 2, 3>>,
     <<120>>}

InitCodec ==
    /\ pc = "idle"
    /\ msg = NoMsg
    /\ wire = <<>>
    /\ res = NoRes
    /\ out = <<>>
    /\ net \in SeqsUpTo(CodecDatagrams, MaxDatagrams)
    /\ buf = <<>>
    /\ ret = NoRet

Receive ==
    /\ pc \in {"idle", "decoded"}
    /\ net # <<>>
    /\ wire' = Head(net)
    /\ net' = Tail(net)
    /\ buf' = buf \o Head(net)
    /\ pc' = "readable"
    /\ UNCHANGED <<msg, res, out, ret>>

Decode ==
    /\ pc \in {"idle", "readable"}
    /\ LET d == GameClientCodec_decode(buf)
       IN /\ ret' = d.ret
          /\ buf' = d.src
    /\ pc' = "decoded"
    /\ UNCHANGED <<msg, wire, res, out, net>>

NextCodec ==
    \/ Receive
    \/ Decode

SpecCodec == InitCodec /\ [][NextCodec]_vars

----------------------------------------------------------------------------
(* The frame adapter as a sink: items are encoded into the write buffer of  *)
(* the framed transport, which is emptied when the buffer is flushed to the *)
(* socket.  At most two items are encoded between two flushes.              *)

EncodeItems == {m \in GetServersMessages : m.filter_options.gametype = None}

InitEncode ==
    /\ pc = "idle"
    /\ msg = NoMsg
    /\ wire = <<>>
    /\ Idle

Encode ==
    /\ pc \in {"idle", "encoded"}
    /\ \E item \in EncodeItems :
          LET e == GameClientCodec_encode(item, out)
          IN /\ msg' = item
             /\ out' = e.dst
             /\ ret' = e.ret
    /\ pc' = IF pc = "idle" THEN "encoded" ELSE "queued"
    /\ UNCHANGED <<wire, res, net, buf>>

Flush ==
    /\ pc \in {"encoded", "queued"}
    /\ wire' = out
    /\ out' = <<>>
    /\ msg' = NoMsg
    /\ ret' = NoRet
    /\ pc' = "flushed"
    /\ UNCHANGED <<res, net, buf>>

NextEncode ==
    \/ Encode
    \/ Flush

SpecEncode == InitEncode /\ [][NextEncode]_vars

----------------------------------------------------------------------------
(* getservers on requests that differ in their filter options: the request  *)
(* of test_getservers_message_q3a, "getservers 67", followed by options and *)
(* spaces.                                                                  *)

OptionsHeader == GetserversCommand \o <<SP, 54, 55>>

OptionTokens ==
    {<<SP>>,
     <<SP>> \o EmptyToken,
     <<SP>> \o FullToken,
     <<SP>> \o GametypeKey \o <<48>>,
     <<SP>> \o GametypeKey \o <<113>>}

OptionsDatagrams ==
    {OptionsHeader \o Concat(ts) : ts \in SeqsUpTo(OptionTokens, MaxTokens)}

InitFilterOptions ==
    /\ pc = "recv"
    /\ msg = NoMsg
    /\ wire \in OptionsDatagrams
    /\ Idle

ParseFilterOptions ==
    /\ pc = "recv"
    /\ res' = getservers(wire)
    /\ pc' = "parsed"
    /\ UNCHANGED <<msg, wire, out, net, buf, ret>>

NextFilterOptions == ParseFilterOptions

SpecFilterOptions == InitFilterOptions /\ [][NextFilterOptions]_vars

----------------------------------------------------------------------------
(* inforesponse on datagrams made of key and value fields, as in            *)
(* test_inforesponse_message.                                               *)

InfoTokens ==
    {<<LF>>, <<BACKSLASH>>, <<BACKSLASH, 97>>, <<BACKSLASH, 98>>}

InfoDatagrams ==
    {InforesponseCommand \o Concat(ts) : ts \in SeqsUpTo(InfoTokens, MaxInfoTokens)}

InitInfoResponse ==
    /\ pc = "recv"
    /\ msg = NoMsg
    /\ wire \in InfoDatagrams
    /\ Idle

ParseInfoResponse ==
    /\ pc = "recv"
    /\ res' = inforesponse(wire)
    /\ pc' = "parsed"
    /\ UNCHANGED <<msg, wire, out, net, buf, ret>>

NextInfoResponse == ParseInfoResponse

SpecInfoResponse == InitInfoResponse /\ [][NextInfoResponse]_vars

----------------------------------------------------------------------------
(* Info: Info::new() followed by calls of insert; msg is the map, out the   *)
(* arguments of the calls made so far.                                      *)

InfoKeys == {<<97>>, <<98>>, <<99>>}
InfoValues == {<<48>>, <<49>>}

InitInfo ==
    /\ pc = "info"
    /\ msg = Info_new
    /\ wire = <<>>
    /\ Idle

InsertInfo ==
    /\ pc = "info"
    /\ Len(out) < MaxInserts
    /\ \E key \in InfoKeys, value \in InfoValues :
          /\ InfoKey_new(key).ok
          /\ InfoValue_new(value).ok
          /\ msg' = Info_insert(msg, InfoKey_new(key).v, InfoValue_new(value).v)
          /\ out' = Append(out, <<key, value>>)
    /\ UNCHANGED <<pc, wire, res, net, buf, ret>>

NextInfo == InsertInfo

SpecInfo == InitInfo /\ [][NextInfo]_vars

----------------------------------------------------------------------------
(* The validating constructors of the value types, called by a user of the  *)
(* crate on a container of bytes (wire); res is the returned Result.        *)

CtorBytes == {NUL, SP, 33, 34, 37, 47, 59, 65, BACKSLASH, 126, 127, 255}

(* the byte strings of the documentation examples *)
DocExamples ==
    {<<65, 95, 99, 104, 52, 76, 108, 101, 110, 103, 51>>,
     <<117, 104, 111, 104, 59>>,
     <<78, 101, 120, 117, 105, 122>>,
     <<105, 110, 118, 97, 108, 105, 100, SP, 101, 120, 97, 109, 112, 108, 101>>}

CtorInputs == SeqsUpTo(CtorBytes, MaxCtorLen) \cup DocExamples

InitConstructors ==
    /\ pc = "new"
    /\ msg = NoMsg
    /\ wire \in CtorInputs
    /\ Idle

NewChallenge ==
    /\ pc = "new"
    /\ res' = Challenge_new(wire)
    /\ pc' = "Challenge"
    /\ UNCHANGED <<msg, wire, out, net, buf, ret>>

NewGameName ==
    /\ pc = "new"
    /\ res' = GameName_new(wire)
    /\ pc' = "GameName"
    /\ UNCHANGED <<msg, wire, out, net, buf, ret>>

NewInfoKey ==
    /\ pc = "new"
    /\ res' = InfoKey_new(wire)
    /\ pc' = "InfoKey"
    /\ UNCHANGED <<msg, wire, out, net, buf, ret>>

NewInfoValue ==
    /\ pc = "new"
    /\ res' = InfoValue_new(wire)
    /\ pc' = "InfoValue"
    /\ UNCHANGED <<msg, wire, out, net, buf, ret>>

NextConstructors ==
    \/ NewChallenge
    \/ NewGameName
    \/ NewInfoKey
    \/ NewInfoValue

SpecConstructors == InitConstructors /\ [][NextConstructors]_vars

----------------------------------------------------------------------------
(* message_prefix and the *_message parsers on datagrams with a whole, a    *)
(* partial, a wrong or no message prefix in front of a message body.        *)

PrefixTokens == {<<255>>, <<255, 255>>, <<254>>, <<104, 117, 114, 122>>}

MessageBodies ==
    {<<>>,
     HeartbeatCommand \o <<SP, 68>>,
     GetinfoCommand \o <<SP, 65>>,
     InforesponseCommand \o <<LF, BACKSLASH, 97, BACKSLASH, 98>>,
     GetserversCommand \o <<SP, 55>>,
     GetserversresponseCommand \o EotSentinel}

PrefixDatagrams ==
    {Concat(ts) \o body : ts \in SeqsUpTo(PrefixTokens, MaxPrefixTokens),
                          body \in MessageBodies}

InitPrefix ==
    /\ pc = "recv"
    /\ msg = NoMsg
    /\ wire \in PrefixDatagrams
    /\ Idle

CallMessagePrefix ==
    /\ pc = "recv"
    /\ res' = message_prefix_verbose(wire)
    /\ pc' = "message_prefix"
    /\ UNCHANGED <<msg, wire, out, net, buf, ret>>

CallHeartbeatMessage ==
    /\ pc = "recv"
    /\ res' = heartbeat_message(wire)
    /\ pc' = "heartbeat_message"
    /\ UNCHANGED <<msg, wire, out, net, buf, ret>>

CallGetinfoMessage ==
    /\ pc = "recv"
    /\ res' = getinfo_message(wire)
    /\ pc' = "getinfo_message"
    /\ UNCHANGED <<msg, wire, out, net, buf, ret>>

CallInforesponseMessage ==
    /\ pc = "recv"
    /\ res' = inforesponse_message(wire)
    /\ pc' = "inforesponse_message"
    /\ UNCHANGED <<msg, wire, out, net, buf, ret>>

CallGetserversMessage ==
    /\ pc = "recv"
    /\ res' = getservers_message(wire)
    /\ pc' = "getservers_message"
    /\ UNCHANGED <<msg, wire, out, net, buf, ret>>

CallGetserversresponseMessage ==
    /\ pc = "recv"
    /\ res' = getserversresponse_message(wire)
    /\ pc' = "getserversresponse_message"
    /\ UNCHANGED <<msg, wire, out, net, buf, ret>>

NextPrefix ==
    \/ CallMessagePrefix
    \/ CallHeartbeatMessage
    \/ CallGetinfoMessage
    \/ CallInforesponseMessage
    \/ CallGetserversMessage
    \/ CallGetserversresponseMessage

SpecPrefix == InitPrefix /\ [][NextPrefix]_vars

----------------------------------------------------------------------------
(* dpmaster-game-client-bin: main sends one request through the framed      *)
(* socket and then loops over framed.try_next().  msg is the request, out   *)
(* the datagrams sent, net the datagrams that arrive at the socket in this  *)
(* order, wire the datagrams read from the socket so far, buf the read half *)
(* of the framed socket (its buffer and its is_readable flag), ret the last *)
(* result of try_next and res the responses the loop body has logged.       *)

ClientRequests ==
    {m \in EncodeItems : /\ m.protocol_number = <<0, 67>>
                         /\ m.game_name \in {None, Some(<<113>>)}}

ClientDatagrams == CodecDatagrams \cup {<<>>}

Pending == [tag |-> "Pending", item |-> None, kind |-> "None"]

(* Decoder::decode_eof: decode, and an error if no frame is found in a      *)
(* buffer that still holds bytes                                            *)
decode_eof(src) ==
    LET check(d) ==
            IF d.ret.tag = "Ok" /\ d.ret.item = None /\ d.src # <<>>
            THEN [ret |-> IoError("Other"), src |-> d.src]
            ELSE d
    IN check(GameClientCodec_decode(src))

(* UdpFramed::poll_next: decode what the buffer holds; when it holds no     *)
(* frame, clear it and receive the next datagram into it                    *)
RECURSIVE poll_next(_, _, _)
poll_next(rd, socket, read) ==
    LET frame(d) ==
            CASE d.ret.tag = "Ok" /\ d.ret.item = None ->
                    poll_next([rd |-> <<>>, is_readable |-> FALSE], socket, read)
              [] OTHER ->
                    [ret |-> d.ret, rd |-> [rd |-> d.src, is_readable |-> TRUE],
                     socket |-> socket, read |-> read]
    IN IF rd.is_readable THEN frame(decode_eof(rd.rd))
       ELSE IF socket = <<>>
       THEN [ret |-> Pending, rd |-> rd, socket |-> socket, read |-> read]
       ELSE poll_next([rd |-> Head(socket), is_readable |-> TRUE],
                      Tail(socket), Append(read, Head(socket)))

(* the while let loop without its break *)
main_loop_no_break(r) ==
    CASE r.tag = "Pending" -> "try_next"
      [] r.tag \in {"Err", "Panic"} -> "return_err"
      [] r.item = None -> "return_ok"
      [] OTHER -> "try_next"

(* where main continues after try_next has returned r *)
main_loop(r) ==
    CASE r.tag = "Pending" -> "try_next"
      [] r.tag \in {"Err", "Panic"} -> "return_err"
      [] r.item = None -> "return_ok"
      [] r.item[1].eot -> "break"
      [] OTHER -> "try_next"

InitClient ==
    /\ pc = "send"
    /\ msg \in ClientRequests
    /\ wire = <<>>
    /\ res = <<>>
    /\ out = <<>>
    /\ net \in SeqsUpTo(ClientDatagrams, MaxDatagrams)
    /\ buf = [rd |-> <<>>, is_readable |-> FALSE]
    /\ ret = NoRet

SendRequest ==
    /\ pc = "send"
    /\ LET e == GameClientCodec_encode(msg, <<>>)
       IN IF e.ret.tag = "Ok"
          THEN /\ out' = Append(out, e.dst)
               /\ pc' = "try_next"
          ELSE /\ out' = out
               /\ pc' = "return_err"
    /\ UNCHANGED <<msg, wire, res, net, buf, ret>>

TryNext ==
    /\ pc = "try_next"
    /\ buf.is_readable \/ net # <<>>
    /\ LET p == poll_next(buf, net, wire)
       IN /\ ret' = p.ret
          /\ buf' = p.rd
          /\ net' = p.socket
          /\ wire' = p.read
          /\ res' = IF p.ret.tag = "Ok" /\ p.ret.item # None
                    THEN Append(res, p.ret.item[1]) ELSE res
          /\ pc' = main_loop(p.ret)
    /\ UNCHANGED <<msg, out>>

NextClient ==
    \/ SendRequest
    \/ TryNext

SpecClient == InitClient /\ [][NextClient]_vars

----------------------------------------------------------------------------
(* C1: round trip of getservers.  For every GetServersMessage built through *)
(* the public constructors (game_name None or any value accepted by         *)
(* GameName::new, gametype None or one or more non-space bytes),            *)
(* getservers_message applied to the bytes written by                       *)
(* gen_getservers_message returns an empty remainder and a message equal to *)
(* the original.                                                            *)
C1_GameTypeInScope(g) ==
    g = None \/ (g[1] # <<>> /\ \A i \in 1..Len(g[1]) : g[1][i] # SP)

C1_RoundTripGetServers ==
    (pc = "roundtrip" /\ C1_GameTypeInScope(msg.filter_options.gametype)) =>
        (res.tag = "Ok" /\ res.rest = <<>> /\ res.val = msg)

----------------------------------------------------------------------------
(* The canonical layout of a getservers datagram: exactly one space between *)
(* fields, a protocol number without leading zeros, and each filter option  *)
(* at most once in the order gametype, empty, full.                         *)
CanonicalGetservers(b) ==
    LET hdr == MessagePrefixBytes \o GetserversCommand \o <<SP>>
        p0 == Drop(b, Len(hdr))
        nlen == SpanLen({c \in Byte : ~(is_digit(c) \/ is_space(c))}, p0)
        p1 == IF nlen = 0 THEN p0 ELSE Drop(p0, nlen + 1)
        dlen == SpanLen({chr \in Byte : is_digit(chr)}, p1)
        p2 == Drop(p1, dlen)
        gthdr == <<SP>> \o GametypeKey
        glen == IF StartsWith(p2, gthdr)
                THEN SpanLen({c \in Byte : c # SP}, Drop(p2, Len(gthdr))) ELSE 0
        p3 == IF StartsWith(p2, gthdr) THEN Drop(p2, Len(gthdr) + glen) ELSE p2
    IN /\ StartsWith(b, hdr)
       /\ (nlen = 0 \/ (Len(p0) > nlen /\ p0[nlen + 1] = SP))
       /\ dlen >= 1
       /\ (dlen = 1 \/ p1[1] # 48)
       /\ (StartsWith(p2, gthdr) => glen >= 1)
       /\ p3 \in {<<>>, <<SP>> \o EmptyToken, <<SP>> \o FullToken,
                  <<SP>> \o EmptyToken \o <<SP>> \o FullToken}

----------------------------------------------------------------------------
(* C2: round trip of getserversResponse.  For every                         *)
(* GetServersResponseMessage (any list of IPv4 socket addresses, including  *)
(* 69.79.84.0:0, and either value of eot),                                  *)
(* getserversresponse_message applied to the bytes written by               *)
(* gen_getserversresponse_message returns an empty remainder and a message  *)
(* with the same servers in the same order and the same eot flag.           *)
C2_RoundTripGetServersResponse ==
    pc = "roundtrip" =>
        /\ res.tag = "Ok"
        /\ res.rest = <<>>
        /\ res.val.servers = msg.servers
        /\ res.val.eot = msg.eot

----------------------------------------------------------------------------
(* C3: round trip of heartbeat.  For every HeartbeatMessage whose           *)
(* ProtocolName is one or more non-newline bytes (including a name that     *)
(* starts with a space), heartbeat_message applied to the bytes written by  *)
(* gen_heartbeat_message returns an empty remainder and a message equal to  *)
(* the original.                                                            *)
C3_NameInScope(n) == n # <<>> /\ \A i \in 1..Len(n) : n[i] # LF

C3_RoundTripHeartbeat ==
    (pc = "roundtrip" /\ C3_NameInScope(msg.protocol_name)) =>
        (res.tag = "Ok" /\ res.rest = <<>> /\ res.val = msg)

----------------------------------------------------------------------------
(* C5: inverse round trip of getserversResponse.  For every byte sequence b *)
(* on which getserversresponse_message succeeds (the remainder is then      *)
(* empty) and yields m, the bytes written by                                *)
(* gen_getserversresponse_message(m) are exactly b.                         *)
C5_InverseRoundTripGetServersResponse ==
    pc = "regen" => (res.rest = <<>> /\ out = wire)

C5_Witness ==
    /\ pc = "regen"
    /\ Len(res.val.servers) >= 1
    /\ res.val.eot
    /\ out = wire


----------------------------------------------------------------------------
(* C6: the getinfo parser is total.  For every byte slice b, getinfo(b)     *)
(* returns either Ok or a parse error and never panics.                     *)
C6_GetinfoTotal ==
    pc = "getinfo_done" => res.tag \in {"Ok", "Err"}

----------------------------------------------------------------------------
(* C7: in the getservers parser, a protocol-number digit run whose decimal  *)
(* value exceeds 2^32-1 is reported as a parse error value; it is neither   *)
(* wrapped modulo 2^32 nor a panic.                                         *)

(* The digit run in the protocol-number slot of "getservers" SP+ [name] SP* *)
ProtocolDigits(b) ==
    LET p0 == Drop(b, Len(GetserversCommand))
        p1 == Drop(p0, SpanLen({chr \in Byte : is_space(chr)}, p0))
        nlen == SpanLen({c \in Byte : ~(is_digit(c) \/ is_space(c))}, p1)
        p2 == Drop(p1, nlen)
        p3 == Drop(p2, SpanLen({chr \in Byte : is_space(chr)}, p2))
    IN IF /\ StartsWith(b, GetserversCommand)
          /\ SpanLen({chr \in Byte : is_space(chr)}, p0) >= 1
          /\ GameName_new(Take(p1, nlen)).ok
       THEN Take(p3, SpanLen({chr \in Byte : is_digit(chr)}, p3))
       ELSE <<>>

C7_OverflowIsParseError ==
    (/\ pc = "getservers_done"
     /\ from_str_radix(ProtocolDigits(wire)).e.kind = "PosOverflow") =>
        res.tag = "Err"

----------------------------------------------------------------------------
(* C8: the getservers parser is total.  For every byte slice b,             *)
(* getservers(b) returns either Ok or a parse error and never panics.       *)
C8_GetserversTotal ==
    pc = "getservers_done" => res.tag \in {"Ok", "Err"}

----------------------------------------------------------------------------
(* C9: the heartbeat, inforesponse and getserversresponse_message parsers   *)
(* are total and bounded: for every byte slice b each returns Ok or a parse *)
(* error without panicking, and on Ok the returned remainder is a suffix of *)
(* b.                                                                       *)
C9_TotalAndBounded ==
    pc \in {"heartbeat_done", "inforesponse_done", "getserversresponse_done"} =>
        /\ res.tag \in {"Ok", "Err"}
        /\ res.tag = "Ok" => IsSuffix(res.rest, wire)

C9_Witness ==
    /\ pc = "inforesponse_done"
    /\ res.tag = "Ok"
    /\ res.rest # <<>>
    /\ res.rest # wire
    /\ IsSuffix(res.rest, wire)


----------------------------------------------------------------------------
(* C10: when GameClientCodec::decode fails to parse a non-empty buffer, it  *)
(* returns an I/O error of kind Other and the buffer is drained (empty) on  *)
(* return, so that bytes of the failed datagram are not seen by a later     *)
(* decode call.                                                             *)
C10_DecodeFailureDrains ==
    (pc = "decoded" /\ ret.tag = "Err") => (ret.kind = "Other" /\ buf = <<>>)


----------------------------------------------------------------------------
(* C11: datagram independence of the frame adapter.  For any sequence of    *)
(* datagrams, each appended to the adapter's buffer and followed by one     *)
(* decode call, the outcome of decode for a datagram is the outcome of      *)
(* decoding that datagram alone; after a malformed datagram produced an     *)
(* error, the next well-formed datagram decodes to its own message.         *)
C11_DatagramIndependence ==
    (pc = "decoded" /\ wire # <<>>) => ret = GameClientCodec_decode(wire).ret

----------------------------------------------------------------------------
(* C12: when decode is given a non-empty buffer that                        *)
(* getserversresponse_message parses successfully, it returns Some(message) *)
(* equal to the parser's result, the parser's remainder is empty, and the   *)
(* buffer is empty on return.                                               *)
C12_DecodeSuccessClears ==
    [][(/\ pc \in {"idle", "readable"}
        /\ pc' = "decoded"
        /\ buf # <<>>
        /\ getserversresponse_message(buf).tag = "Ok") =>
            (/\ ret' = IoOk(Some(getserversresponse_message(buf).val))
             /\ getserversresponse_message(buf).rest = <<>>
             /\ buf' = <<>>)]_vars

C12_Witness ==
    /\ pc = "decoded"
    /\ wire # <<>>
    /\ ret.tag = "Ok"
    /\ ret.item # None
    /\ Len(ret.item[1].servers) >= 1
    /\ buf = <<>>

----------------------------------------------------------------------------
(* C13: decode on an empty buffer returns Ok(None), raises no error and     *)
(* leaves the buffer empty; it returns Ok(None) for no non-empty buffer.    *)
C13_DecodeEmptyIsNone ==
    [][(pc \in {"idle", "readable"} /\ pc' = "decoded") =>
            (/\ (buf = <<>>) <=> (ret' = IoOk(None))
             /\ buf = <<>> => buf' = <<>>)]_vars

C13_Witness ==
    /\ pc = "decoded"
    /\ wire = <<>>
    /\ ret = IoOk(None)
    /\ buf = <<>>

----------------------------------------------------------------------------
(* C14: encode appends to the destination buffer exactly the bytes          *)
(* gen_getservers_message produces for the message: the bytes already in    *)
(* the buffer are unchanged and stay in front, and the buffer grows by the  *)
(* serialized length.                                                       *)
C14_EncodeAppends ==
    [][(pc \in {"idle", "encoded"} /\ pc' \in {"encoded", "queued"}) =>
            (/\ Take(out', Len(out)) = out
             /\ Drop(out', Len(out)) = gen_getservers_message(msg')
             /\ Len(out') = Len(out) + Len(gen_getservers_message(msg'))
             /\ ret'.tag = "Ok")]_vars

C14_Witness ==
    /\ pc = "queued"
    /\ ret.tag = "Ok"
    /\ Len(out) > Len(gen_getservers_message(msg))
    /\ Drop(out, Len(out) - Len(gen_getservers_message(msg)))
            = gen_getservers_message(msg)

----------------------------------------------------------------------------
(* The bytes of a received getserversResponse datagram after the command    *)
ResponsePayload(b) == Drop(b, Len(ResponseHeader))

(* n >= 0 groups of 7 bytes, each starting with the separator.  The         *)
(* sentinel is itself such a group.                                         *)
WellFormedGroups(p) ==
    /\ Len(p) % 7 = 0
    /\ \A k \in 0..(Len(p) \div 7 - 1) : p[7 * k + 1] = BACKSLASH

SentinelAtTail(p) == Len(p) >= 7 /\ Drop(p, Len(p) - 7) = EotSentinel

(* C15: getserversresponse accepts exactly the inputs whose bytes after the *)
(* command are n >= 0 groups of '\' + 4 address octets + 2 port octets,     *)
(* optionally followed by the 7-byte sentinel, and nothing else.  On        *)
(* success the remainder is empty, eot is true iff the sentinel is at the   *)
(* tail, and the length is len(command) + 7 * len(servers) + (7 if eot).    *)
(* Trailing bytes that are neither a complete group nor the complete        *)
(* sentinel give a parse error.                                             *)
C15_ResponseGrammar ==
    pc = "parsed" =>
        LET p == ResponsePayload(wire)
        IN /\ res = getserversresponse(Drop(wire, Len(MessagePrefixBytes)))
           /\ (res.tag = "Ok") <=> WellFormedGroups(p)
           /\ ~WellFormedGroups(p) => res.tag = "Err"
           /\ res.tag = "Ok" =>
                /\ res.rest = <<>>
                /\ res.val.eot <=> SentinelAtTail(p)
                /\ Len(wire) - Len(MessagePrefixBytes)
                      = Len(GetserversresponseCommand)
                        + 7 * Len(res.val.servers)
                        + (IF res.val.eot THEN 7 ELSE 0)

C15_Witness ==
    /\ pc = "parsed"
    /\ res.tag = "Ok"
    /\ res.val.eot
    /\ Len(res.val.servers) = 1
    /\ Len(ResponsePayload(wire)) = 14

----------------------------------------------------------------------------
(* C16: the getserversResponse parser never accepts a datagram in which     *)
(* bytes follow the end-of-transmission sentinel: every input where the 7   *)
(* sentinel bytes occur at an address-group boundary and are followed by at *)
(* least one more byte is rejected with a parse error.                      *)
C16_NothingAfterSentinel ==
    pc = "parsed" =>
        LET p == ResponsePayload(wire)
        IN (\E k \in 0..(Len(p) \div 7) :
                /\ 7 * k + 7 < Len(p)
                /\ WellFormedGroups(Take(p, 7 * k))
                /\ Take(Drop(p, 7 * k), 7) = EotSentinel)
            => res.tag = "Err"

----------------------------------------------------------------------------
(* C17: for every accepted getserversResponse input, the i-th returned      *)
(* server is built from the i-th 7-byte group on the wire: its octets are   *)
(* the 4 bytes after the separator in wire order and its port is            *)
(* 256 * (5th byte) + (6th byte); the serializer writes each stored address *)
(* back as the same 7 bytes.                                                *)
C17_AddressesInWireOrder ==
    (pc = "parsed" /\ res.tag = "Ok") =>
        LET p == ResponsePayload(wire)
        IN \A i \in 1..Len(res.val.servers) :
              LET g == Take(Drop(p, 7 * (i - 1)), 7)
              IN /\ res.val.servers[i].ip = <<g[2], g[3], g[4], g[5]>>
                 /\ res.val.servers[i].port = 256 * g[6] + g[7]
                 /\ gen_socketaddrv4(res.val.servers[i]) = g

C17_Witness ==
    /\ pc = "parsed"
    /\ res.tag = "Ok"
    /\ Len(res.val.servers) = 2
    /\ res.val.servers[1] # res.val.servers[2]
    /\ res.val.servers[2].port = 2048

----------------------------------------------------------------------------
(* C18: game-name detection in getservers.  After the mandatory spaces      *)
(* following the command, if the first byte is an ASCII digit the message   *)
(* has game_name = None; otherwise game_name is the maximal run of bytes up *)
(* to (not including) the next digit or space, and the protocol number is   *)
(* the digit run that follows optional spaces.                              *)
C18_GameNameDetection ==
    (pc = "parsed" /\ res.tag = "Ok") =>
        LET p0 == Drop(wire, Len(MessagePrefixBytes) + Len(GetserversCommand))
            p == Drop(p0, SpanLen({c \in Byte : c = SP}, p0))
            nlen == SpanLen({c \in Byte : ~(c \in 48..57 \/ c = SP)}, p)
            q0 == Drop(p, nlen)
            q == Drop(q0, SpanLen({c \in Byte : c = SP}, q0))
            digits == Take(q, SpanLen({c \in Byte : c \in 48..57}, q))
        IN /\ Len(p0) > Len(p)
           /\ p # <<>>
           /\ res.val.game_name =
                 (IF p[1] \in 48..57 THEN None ELSE Some(Take(p, nlen)))
           /\ from_str_radix(digits).ok
           /\ res.val.protocol_number = from_str_radix(digits).v

C18_Witness ==
    /\ pc = "parsed"
    /\ res.tag = "Ok"
    /\ wire = MessagePrefixBytes \o GetserversCommand \o <<SP, 113, 55, SP, 48>>
    /\ res.val.game_name = Some(<<113>>)
    /\ res.val.protocol_number = <<0, 7>>
    /\ res.rest = <<48>>

----------------------------------------------------------------------------
(* The text after the protocol number, cut at every single space: a double  *)
(* or a trailing space shows as an empty field.                             *)
RECURSIVE OptionFields(_)
OptionFields(t) ==
    IF t = <<>> THEN <<>>
    ELSE LET body == IF t[1] = SP THEN Tail(t) ELSE t
             n == SpanLen({c \in Byte : c # SP}, body)
         IN <<Take(body, n)>> \o OptionFields(Drop(body, n))

IsFilterOption(f) ==
    \/ f = EmptyToken
    \/ f = FullToken
    \/ StartsWith(f, GametypeKey) /\ Len(f) > Len(GametypeKey)

RECURSIVE JoinOptions(_)
JoinOptions(fs) ==
    IF fs = <<>> THEN <<>> ELSE <<SP>> \o Head(fs) \o JoinOptions(Tail(fs))

(* C19: filter-option folding in getservers.  For any accepted list of      *)
(* single-space-separated options in any order, empty is true iff 'empty'   *)
(* occurs at least once, full is true iff 'full' occurs at least once, and  *)
(* gametype is the value of the last 'gametype=' option (None if there is   *)
(* none); repeating a boolean option has no further effect.                 *)
C19_FilterOptionFolding ==
    pc = "parsed" =>
        LET fs == OptionFields(Drop(wire, Len(OptionsHeader)))
            gs == {i \in 1..Len(fs) : StartsWith(fs[i], GametypeKey)}
            last == CHOOSE i \in gs : \A j \in gs : j <= i
        IN (\A i \in 1..Len(fs) : IsFilterOption(fs[i])) =>
            /\ res.tag = "Ok"
            /\ res.rest = <<>>
            /\ res.val.filter_options.empty
                    <=> \E i \in 1..Len(fs) : fs[i] = EmptyToken
            /\ res.val.filter_options.full
                    <=> \E i \in 1..Len(fs) : fs[i] = FullToken
            /\ res.val.filter_options.gametype =
                    (IF gs = {} THEN None
                     ELSE Some(Drop(fs[last], Len(GametypeKey))))

C19_Witness ==
    /\ pc = "parsed"
    /\ wire = OptionsHeader
               \o JoinOptions(<<FullToken, GametypeKey \o <<48>>, FullToken,
                                GametypeKey \o <<113>>>>)
    /\ res.tag = "Ok"
    /\ res.val.filter_options.gametype = Some(<<113>>)
    /\ res.val.filter_options.full
    /\ ~res.val.filter_options.empty

----------------------------------------------------------------------------
(* C20: the getservers grammar separates filter options by one or more      *)
(* spaces: an input with two or more spaces between two options, such as    *)
(* "getservers 67 empty  full", is parsed with every listed option          *)
(* recognised and an empty remainder, exactly like the single-space form.   *)
C20_MultiSpaceOptions ==
    pc = "parsed" =>
        LET fs == OptionFields(Drop(wire, Len(OptionsHeader)))
            opts == SelectSeq(fs, LAMBDA f : f # <<>>)
        IN (/\ fs # <<>>
            /\ fs[Len(fs)] # <<>>
            /\ \A i \in 1..Len(opts) : IsFilterOption(opts[i])) =>
                /\ res.tag = "Ok"
                /\ res.rest = <<>>
                /\ res = getservers(OptionsHeader \o JoinOptions(opts))

----------------------------------------------------------------------------
(* C21: the heartbeat parser, on "heartbeat" + one or more spaces + a name  *)
(* of one or more non-newline bytes not starting with a space + k >= 0 line *)
(* feeds, returns protocol_name equal to the name and an empty remainder;   *)
(* it fails when the name is empty or no space follows the command.         *)
C21_HeartbeatGrammar ==
    (pc = "heartbeat_done" /\ StartsWith(wire, HeartbeatCommand)) =>
        LET p0 == Drop(wire, Len(HeartbeatCommand))
            sp == SpanLen({SP}, p0)
            p1 == Drop(p0, sp)
            nlen == SpanLen(Byte \ {LF}, p1)
            p2 == Drop(p1, nlen)
            k == SpanLen({LF}, p2)
        IN /\ (sp >= 1 /\ nlen >= 1 /\ Drop(p2, k) = <<>>) =>
                /\ res.tag = "Ok"
                /\ res.rest = <<>>
                /\ res.val.protocol_name = Take(p1, nlen)
           /\ (sp = 0 \/ nlen = 0) => res.tag = "Err"

C21_Witness ==
    /\ pc = "heartbeat_done"
    /\ wire = HeartbeatCommand \o <<SP, SP, 68, LF>>
    /\ res.tag = "Ok"
    /\ res.rest = <<>>
    /\ res.val.protocol_name = <<68>>

----------------------------------------------------------------------------
(* C22: the inforesponse parser, on "infoResponse" + exactly one line feed  *)
(* + n >= 1 pairs "\key\value" whose keys and values are non-empty and    *)
(* backslash-free and whose keys are pairwise distinct, returns an empty    *)
(* remainder and an Info that iterates exactly the n pairs in wire order;   *)
(* with zero pairs or without the line feed it fails.                       *)
RECURSIVE BackslashFields(_)
BackslashFields(s) ==
    IF s = <<>> \/ s[1] # BACKSLASH THEN <<>>
    ELSE LET n == SpanLen(Byte \ {BACKSLASH}, Tail(s))
         IN <<Take(Tail(s), n)>> \o BackslashFields(Drop(Tail(s), n))

WirePairs(s) ==
    [i \in 1..(Len(BackslashFields(s)) \div 2) |->
        <<BackslashFields(s)[2 * i - 1], BackslashFields(s)[2 * i]>>]

WellFormedPairs(s) ==
    /\ s # <<>>
    /\ s[1] = BACKSLASH
    /\ Len(BackslashFields(s)) % 2 = 0
    /\ \A i \in 1..Len(BackslashFields(s)) : BackslashFields(s)[i] # <<>>
    /\ \A i, j \in 1..Len(WirePairs(s)) :
            WirePairs(s)[i][1] = WirePairs(s)[j][1] => i = j

C22_InfoResponseGrammar ==
    (pc = "parsed" /\ StartsWith(wire, InforesponseCommand)) =>
        LET p == Drop(wire, Len(InforesponseCommand))
        IN /\ (p # <<>> /\ p[1] = LF /\ WellFormedPairs(Tail(p))) =>
                /\ res.tag = "Ok"
                /\ res.rest = <<>>
                /\ res.val.info = WirePairs(Tail(p))
           /\ (p = <<>> \/ p[1] # LF \/ p = <<LF>>) => res.tag = "Err"

C22_Witness ==
    /\ pc = "parsed"
    /\ wire = InforesponseCommand
                \o <<LF, BACKSLASH, 98, BACKSLASH, 97, BACKSLASH, 97, BACKSLASH, 98>>
    /\ res.tag = "Ok"
    /\ res.rest = <<>>
    /\ res.val.info = << <<(<<98>>), (<<97>>)>>, <<(<<97>>), (<<98>>)>> >>

----------------------------------------------------------------------------
(* C23: the infoResponse parser consumes pairs until the input is           *)
(* exhausted: whenever inforesponse returns Ok the remainder is empty, so   *)
(* residual bytes after the last complete pair (a dangling "\key", a        *)
(* trailing "\") are a parse error.                                         *)
C23_InfoExhaustsInput ==
    (pc = "parsed" /\ StartsWith(wire, InforesponseCommand)) =>
        (res.tag = "Ok" => res.rest = <<>>)

----------------------------------------------------------------------------
(* C24: Info is an insertion-ordered map with unique keys: it iterates its  *)
(* keys in the order of their first insertion, each once, with the value of *)
(* the last insertion of that key; inserting a key already present          *)
(* overwrites its value and keeps its position and the entry count.         *)
FirstInsertions(calls) ==
    SelectSeq([i \in 1..Len(calls) |-> <<i, calls[i][1]>>],
              LAMBDA e : \A j \in 1..(e[1] - 1) : calls[j][1] # e[2])

LastValue(calls, key) ==
    LET last == CHOOSE i \in 1..Len(calls) :
                    /\ calls[i][1] = key
                    /\ \A j \in (i + 1)..Len(calls) : calls[j][1] # key
    IN calls[last][2]

C24_InsertionOrdered ==
    pc = "info" =>
        /\ Len(msg) = Len(FirstInsertions(out))
        /\ \A i \in 1..Len(msg) :
              /\ msg[i][1] = FirstInsertions(out)[i][2]
              /\ msg[i][2] = LastValue(out, msg[i][1])
        /\ \A i, j \in 1..Len(msg) : msg[i][1] = msg[j][1] => i = j

C24_Witness ==
    /\ pc = "info"
    /\ out = << <<(<<97>>), (<<48>>)>>, <<(<<98>>), (<<48>>)>>, <<(<<97>>), (<<49>>)>> >>
    /\ msg = << <<(<<97>>), (<<49>>)>>, <<(<<98>>), (<<48>>)>> >>

----------------------------------------------------------------------------
(* C25: InfoKey::new and InfoValue::new fail, identifying the first         *)
(* offending byte offset, for any input containing a backslash, so every    *)
(* InfoKey / InfoValue that exists contains no backslash.                   *)
C25_InfoFieldsValidated ==
    pc \in {"InfoKey", "InfoValue"} =>
        /\ (\E i \in 1..Len(wire) : wire[i] = BACKSLASH) =>
                /\ ~res.ok
                /\ wire[res.e.offset + 1] = BACKSLASH
                /\ \A k \in 1..res.e.offset : wire[k] # BACKSLASH
        /\ res.ok => \A i \in 1..Len(res.v) : res.v[i] # BACKSLASH

----------------------------------------------------------------------------
(* C26: Challenge::new succeeds iff its input is non-empty and every byte   *)
(* is in 33..=126 and none of \ / ; " %; the empty input is rejected as     *)
(* Empty, any other rejected input as InvalidByte with the smallest         *)
(* offending offset.                                                        *)
ChallengeByteOk(b) == b \in (33..126) \ {92, 47, 59, 34, 37}

C26_ChallengeValidation ==
    pc = "Challenge" =>
        /\ res.ok <=> (wire # <<>> /\ \A i \in 1..Len(wire) : ChallengeByteOk(wire[i]))
        /\ res.ok => res.v = wire
        /\ wire = <<>> => res.e.kind = "Empty"
        /\ (wire # <<>> /\ ~res.ok) =>
                /\ res.e.kind = "InvalidByte"
                /\ ~ChallengeByteOk(wire[res.e.offset + 1])
                /\ \A k \in 1..res.e.offset : ChallengeByteOk(wire[k])

C26_Witness ==
    /\ pc = "Challenge"
    /\ wire = <<65, 37, 127>>
    /\ ~res.ok
    /\ res.e.kind = "InvalidByte"
    /\ res.e.offset = 1

----------------------------------------------------------------------------
(* C27: GameName::new succeeds iff its input contains neither 0x00 nor      *)
(* 0x20; otherwise it fails with InvalidGameName{byte, offset} for the      *)
(* smallest index holding either byte ("invalid example": byte 0x20,        *)
(* offset 7).                                                               *)
C27_GameNameValidation ==
    pc = "GameName" =>
        /\ res.ok <=> (\A i \in 1..Len(wire) : wire[i] \notin {0, 32})
        /\ res.ok => res.v = wire
        /\ ~res.ok =>
                /\ res.e.kind = "InvalidGameName"
                /\ res.e.byte = wire[res.e.offset + 1]
                /\ res.e.byte \in {0, 32}
                /\ \A k \in 1..res.e.offset : wire[k] \notin {0, 32}
        /\ wire = <<105, 110, 118, 97, 108, 105, 100, 32, 101, 120, 97, 109, 112, 108, 101>>
                => (~res.ok /\ res.e.byte = 32 /\ res.e.offset = 7)

C27_Witness ==
    /\ pc = "GameName"
    /\ wire = <<65, 0, 32>>
    /\ ~res.ok
    /\ res.e.byte = 0
    /\ res.e.offset = 1

----------------------------------------------------------------------------
(* C28: message_prefix succeeds iff the input starts with FF FF FF FF,      *)
(* returning those 4 bytes and the rest as remainder; on every other input  *)
(* (the empty one included) it fails without consuming, and with the        *)
(* verbose error type the chain is exactly Nom(Tag),                        *)
(* Dpmaster(MessagePrefix), Context("message prefix"), each entry carrying  *)
(* the whole input.  Every *_message parser fails at the whole input when   *)
(* the prefix is missing.                                                   *)
MessageParsers ==
    {"heartbeat_message", "getinfo_message", "inforesponse_message",
     "getservers_message", "getserversresponse_message"}

HasPrefix(s) == Len(s) >= 4 /\ \A i \in 1..4 : s[i] = 255

C28_MessagePrefix ==
    /\ pc = "message_prefix" =>
          /\ res.tag = "Ok" <=> HasPrefix(wire)
          /\ HasPrefix(wire) =>
                /\ res.val = <<255, 255, 255, 255>>
                /\ res.val \o res.rest = wire
          /\ ~HasPrefix(wire) =>
                /\ res.tag = "Err"
                /\ res.val = <<[input |-> wire, kind |-> <<"Nom", "Tag">>],
                               [input |-> wire, kind |-> <<"Dpmaster", "MessagePrefix">>],
                               [input |-> wire, kind |-> <<"Context", "message prefix">>]>>
    /\ (pc \in MessageParsers /\ ~HasPrefix(wire)) =>
          /\ res.tag = "Err"
          /\ res.rest = wire
          /\ res.val = "Tag"

C28_Witness ==
    /\ pc = "message_prefix"
    /\ wire = <<104, 117, 114, 122>>
    /\ res.tag = "Err"
    /\ Len(res.val) = 3
    /\ res.val[2].kind = <<"Dpmaster", "MessagePrefix">>

----------------------------------------------------------------------------
(* C29: gen_getservers_message writes exactly FF FF FF FF, "getservers ",   *)
(* the game name followed by one space iff game_name is Some, the protocol  *)
(* number in decimal without leading zeros, " gametype=" and the gametype   *)
(* iff gametype is Some, " empty" iff empty, " full" iff full, in that      *)
(* order and nothing else.                                                  *)
CanonicalDecimal(d, number) ==
    /\ d # <<>>
    /\ \A i \in 1..Len(d) : d[i] \in 48..57
    /\ Len(d) > 1 => d[1] # 48
    /\ from_str_radix(d).ok
    /\ from_str_radix(d).v = number

C29_GetServersLayout ==
    (pc = "sent" /\ msg.kind = "getservers") =>
        LET head == <<255, 255, 255, 255,
                      103, 101, 116, 115, 101, 114, 118, 101, 114, 115, 32>>
                    \o (IF msg.game_name = None THEN <<>>
                        ELSE msg.game_name[1] \o <<32>>)
            f == msg.filter_options
            tail == (IF f.gametype = None THEN <<>>
                     ELSE <<32, 103, 97, 109, 101, 116, 121, 112, 101, 61>>
                          \o f.gametype[1])
                    \o (IF f.empty THEN <<32, 101, 109, 112, 116, 121>> ELSE <<>>)
                    \o (IF f.full THEN <<32, 102, 117, 108, 108>> ELSE <<>>)
        IN /\ Len(wire) > Len(head) + Len(tail)
           /\ Take(wire, Len(head)) = head
           /\ Drop(wire, Len(wire) - Len(tail)) = tail
           /\ CanonicalDecimal(SubSeq(wire, Len(head) + 1, Len(wire) - Len(tail)),
                               msg.protocol_number)

C29_Witness ==
    /\ pc = "sent"
    /\ msg.kind = "getservers"
    /\ msg.game_name = Some(<<113>>)
    /\ msg.protocol_number = <<0, 67>>
    /\ msg.filter_options.gametype = Some(<<55>>)
    /\ msg.filter_options.empty
    /\ msg.filter_options.full
    /\ wire = <<255, 255, 255, 255,
                103, 101, 116, 115, 101, 114, 118, 101, 114, 115, 32,
                113, 32, 54, 55,
                32, 103, 97, 109, 101, 116, 121, 112, 101, 61, 55,
                32, 101, 109, 112, 116, 121, 32, 102, 117, 108, 108>>

----------------------------------------------------------------------------
(* C30: the game client sends exactly one getservers request and then       *)
(* processes the responses in arrival order: it stops right after the first *)
(* response with eot = true (later datagrams are never read), keeps         *)
(* receiving after every response with eot = false, and otherwise ends only *)
(* when the stream ends or a receive/decode error is returned.              *)
ClientStates == {"send", "try_next", "break", "return_err", "return_ok"}

DatagramsRead == SelectSeq(wire, LAMBDA d : d # <<>>)

Decoded(i) == getserversresponse_message(DatagramsRead[i])

C30_ClientLoop ==
    pc \in ClientStates =>
        /\ pc = "send" => (out = <<>> /\ wire = <<>> /\ res = <<>>)
        /\ pc # "send" => out = <<gen_getservers_message(msg)>>
        /\ \A i \in 1..(Len(DatagramsRead) - 1) :
              Decoded(i).tag = "Ok" /\ ~Decoded(i).val.eot
        /\ \A i \in 1..Len(res) :
              Decoded(i).tag = "Ok" /\ res[i] = Decoded(i).val
        /\ Len(res) \in {Len(DatagramsRead), Len(DatagramsRead) - 1}
        /\ pc = "break" <=>
              (res # <<>> /\ Len(res) = Len(DatagramsRead) /\ res[Len(res)].eot)
        /\ pc = "return_err" <=>
              (DatagramsRead # <<>> /\ Decoded(Len(DatagramsRead)).tag = "Err")
        /\ pc = "return_ok" => (ret.tag = "Ok" /\ ret.item = None)
        /\ pc = "try_next" =>
              (Len(res) = Len(DatagramsRead) /\ \A i \in 1..Len(res) : ~res[i].eot)

C30_Witness ==
    /\ pc = "break"
    /\ Len(res) = 2
    /\ ~res[1].eot
    /\ res[2].eot
    /\ net # <<>>

=============================================================================
